---- MODULE Spec2Model ----
(***************************************************************************)
(* Personal Finance App (PySide6): the table widget, the QUndoStack of     *)
(* EditCellCommand objects, CSV import, and the derivations behind the     *)
(* charts and the PDF export.                                              *)
(*                                                                         *)
(* Rows and columns are numbered from 1 here (from 0 in the code).         *)
(* Python's None is the empty tuple <<>>, a present value v is <<v>>.      *)
(***************************************************************************)
EXTENDS Integers, Sequences, FiniteSets, TLC

VARIABLES
    headers,          \* tableWidget horizontal header labels
    table,            \* tableWidget cell texts, a sequence of rows
    undo_stack,       \* QUndoStack: the commands, oldest first
    index,            \* QUndoStack.index(): number of applied commands
    ignore_change,    \* MainWindow._ignore_change
    last_cell,        \* MainWindow._last_cell
    last_value,       \* MainWindow._last_value
    current_filename, \* CsvReader.current_filename
    lastOp,           \* history: the handler that ran last
    editCell,         \* history: the cell the last handler edited (user edit)
    editOld,          \* history: the text that cell held just before the edit
    redoTail,         \* history: undone commands there were before the edit
    ops,              \* history: number of handlers run so far
    temp_files,       \* the temporary chart images that exist on disk
    result,           \* what the last chart or PDF request derived and how it ended
    written,          \* the CSV file df.to_csv wrote last
    accepted          \* history: the file last imported or saved with success

vars == <<headers, table, undo_stack, index, ignore_change, last_cell,
          last_value, current_filename, lastOp, editCell, editOld, redoTail, ops,
          temp_files, result, written, accepted>>

\* Bounds of the model: the number of handlers run in an editing session, the
\* number of rows of a table handed to the charts and the PDF export, and the
\* number of rows that follow the eight fixed ones in the tables for the pie.
MaxOps == 7
MaxRows == 3
MaxFree == 3

\* ---------------------------------------------------------------------------
\* Inputs

required_columns == <<"Description", "Date", "Type", "Amount">>

\* The CSV files the open dialog can return, as pd.read_csv sees them:
\* readable = FALSE stands for a file pd.read_csv raises on.
Files ==
    [ok |-> [readable |-> TRUE, columns |-> required_columns,
             rows |-> << <<"Rent", "2024-01-01", "Expense", "100">> >>],
     hdr |-> [readable |-> TRUE, columns |-> required_columns, rows |-> << >>],
     noamount |-> [readable |-> TRUE, columns |-> <<"Description", "Date", "Type">>,
                   rows |-> << <<"Gift", "2024-01-02", "Income">> >>],
     broken |-> [readable |-> FALSE, columns |-> << >>, rows |-> << >>]]

FileNames == {"ok", "hdr", "noamount", "broken"}

\* The texts a user types into a cell, and the columns the user clicks and
\* edits.
EditTexts == {"x", "y"}
ClickCols == {1, 2}
EditCols == {1, 2}

\* What the claims call a missing required column, read off the file itself.
MissingRequired(filename) ==
    \E name \in {"Description", "Date", "Type", "Amount"} :
        \A j \in 1..Len(Files[filename].columns) : Files[filename].columns[j] # name

\* ---------------------------------------------------------------------------
\* The program state as one record, so that handlers compose as functions.

St == [headers |-> headers, table |-> table, undo_stack |-> undo_stack,
       index |-> index, ignore_change |-> ignore_change,
       last_cell |-> last_cell, last_value |-> last_value,
       current_filename |-> current_filename]

Becomes(s) ==
    /\ headers' = s.headers
    /\ table' = s.table
    /\ undo_stack' = s.undo_stack
    /\ index' = s.index
    /\ ignore_change' = s.ignore_change
    /\ last_cell' = s.last_cell
    /\ last_value' = s.last_value
    /\ current_filename' = s.current_filename

rowCount(s) == Len(s.table)
columnCount(s) == Len(s.headers)
InRange(s, row, col) == row \in 1..rowCount(s) /\ col \in 1..columnCount(s)

\* tableWidget.item(row, col).text()
itemText(s, row, col) == s.table[row][col]

\* ---------------------------------------------------------------------------
\* QTableWidget.setItem, the itemChanged signal, and the undo commands.
\* setItem replaces the item and emits itemChanged synchronously; the slot
\* _on_item_changed pushes a command, and push runs the command's redo(),
\* which calls setItem again.

RECURSIVE setItem(_, _, _, _)

EditCellCommand_undo(s, cmd) ==
    LET s1 == [s EXCEPT !.ignore_change = TRUE]
        s2 == setItem(s1, cmd.row, cmd.col, cmd.old_value)
    IN  [s2 EXCEPT !.ignore_change = FALSE]

EditCellCommand_redo_keepsFlag(s, cmd) ==
    LET s1 == [s EXCEPT !.ignore_change = TRUE]
    IN  setItem(s1, cmd.row, cmd.col, cmd.new_value)

EditCellCommand_redo(s, cmd) ==
    LET s1 == [s EXCEPT !.ignore_change = TRUE]
        s2 == setItem(s1, cmd.row, cmd.col, cmd.new_value)
    IN  [s2 EXCEPT !.ignore_change = FALSE]

\* QUndoStack.push: run redo(), drop the undone commands, append, advance.
QUndoStack_push(s, cmd) ==
    LET s1 == EditCellCommand_redo(s, cmd)
    IN  [s1 EXCEPT !.undo_stack = Append(SubSeq(s1.undo_stack, 1, s1.index), cmd),
                   !.index = s1.index + 1]

\* QUndoStack.undo / redo: nothing to do at either end of the list.
QUndoStack_undo(s) ==
    IF s.index = 0 THEN s
    ELSE [EditCellCommand_undo(s, s.undo_stack[s.index]) EXCEPT !.index = s.index - 1]

QUndoStack_redo(s) ==
    IF s.index = Len(s.undo_stack) THEN s
    ELSE [EditCellCommand_redo(s, s.undo_stack[s.index + 1]) EXCEPT !.index = s.index + 1]

on_item_changed_noPush(s, row, col) ==
    IF s.ignore_change THEN s
    ELSE LET new_value == itemText(s, row, col)
             old_value == IF s.last_cell = <<row, col>> THEN s.last_value[1] ELSE ""
             command == [row |-> row, col |-> col,
                         old_value |-> old_value, new_value |-> new_value]
         IN  EditCellCommand_redo(s, command)

on_item_changed(s, row, col) ==
    IF s.ignore_change THEN s
    ELSE LET new_value == itemText(s, row, col)
             old_value == IF s.last_cell = <<row, col>> THEN s.last_value[1] ELSE ""
             command == [row |-> row, col |-> col,
                         old_value |-> old_value, new_value |-> new_value]
         IN  QUndoStack_push(s, command)

\* Out of range, QTableWidget.setItem changes nothing and emits nothing.
setItem(s, row, col, text) ==
    IF ~InRange(s, row, col) THEN s
    ELSE on_item_changed([s EXCEPT !.table[row][col] = text], row, col)

\* ---------------------------------------------------------------------------
\* MainWindow handlers

on_cell_clicked(s, row, col) ==
    [s EXCEPT !.last_cell = <<row, col>>, !.last_value = <<itemText(s, row, col)>>]

\* The user commits `text` in the cell's editor: the item's text is set and
\* itemChanged is emitted (Qt emits nothing when the text is unchanged).
user_edit(s, row, col, text) ==
    on_item_changed([s EXCEPT !.table[row][col] = text], row, col)

MainWindow_undo(s) ==
    LET s1 == [s EXCEPT !.ignore_change = TRUE]
        s2 == QUndoStack_undo(s1)
    IN  [s2 EXCEPT !.ignore_change = FALSE]

MainWindow_redo(s) ==
    LET s1 == [s EXCEPT !.ignore_change = TRUE]
        s2 == QUndoStack_redo(s1)
    IN  [s2 EXCEPT !.ignore_change = FALSE]

\* ---------------------------------------------------------------------------
\* CsvReader

check_csv_columns_three(columns) ==
    \A i \in 1..3 : \E j \in 1..Len(columns) : columns[j] = required_columns[i]

check_csv_columns(columns) ==
    \A i \in 1..Len(required_columns) :
        \E j \in 1..Len(columns) : columns[j] = required_columns[i]

\* setRowCount / setColumnCount / setHorizontalHeaderLabels: cells inside the
\* old and the new size keep their item, new cells have none (text "").
resized(s, columns, nrows) ==
    [s EXCEPT !.headers = columns,
              !.table = [r \in 1..nrows |->
                            [c \in 1..Len(columns) |->
                                IF InRange(s, r, c) THEN s.table[r][c] ELSE ""]]]

\* The loop of read(): setItem for cells k, k+1, ... in row-major order.
RECURSIVE populate(_, _, _)
populate(s, rows, k) ==
    LET ncols == columnCount(s)
        row == ((k - 1) \div ncols) + 1
        col == ((k - 1) % ncols) + 1
    IN  IF ncols = 0 \/ k > Len(rows) * ncols THEN s
        ELSE populate(setItem(s, row, col, rows[row][col]), rows, k + 1)

\* read() once the dialog has returned `filename` (not cancelled).
CsvReader_read(s, filename) ==
    LET s1 == [s EXCEPT !.current_filename = <<filename>>]
        df == Files[filename]
    IN  IF ~df.readable THEN s1
        ELSE IF ~check_csv_columns(df.columns) THEN s1
        ELSE populate(resized(s1, df.columns, Len(df.rows)), df.rows, 1)

\* The names the "Save File As" dialog can return; "" is a cancelled dialog.
SaveNames == {"", "out"}

\* How a save ends: the state, the file df.to_csv wrote (<<>> if none) and
\* the path taken. write_ok = FALSE stands for a df.to_csv that raises.
Saved(s, wrote, how) == [st |-> s, wrote |-> wrote, how |-> how]

\* CsvReader.save_as
CsvReader_save_as(s, filename, write_ok) ==
    IF filename = "" THEN Saved(s, << >>, "cancelled")
    ELSE IF ~write_ok THEN Saved(s, << >>, "failed")
    ELSE Saved([s EXCEPT !.current_filename = <<filename>>], <<filename>>, "saved")

\* CsvReader.quick_save
CsvReader_quick_save(s, filename, write_ok) ==
    IF s.current_filename # << >>
    THEN IF write_ok THEN Saved(s, s.current_filename, "quick")
         ELSE Saved(s, << >>, "quick_failed")
    ELSE LET r == CsvReader_save_as(s, filename, write_ok)
         IN  Saved(r.st, r.wrote, "prompt_" \o r.how)

\* ---------------------------------------------------------------------------
\* pandas conversions, by what they do on the texts of the model

\* pd.to_numeric(errors='coerce'): <<n>> for a numeric text, <<>> (NaN) otherwise.
to_numeric(text) ==
    CASE text = "100" -> <<100>> [] text = "30" -> <<30>> [] text = "20" -> <<20>>
      [] text = "-5" -> <<-5>>   [] text = "1" -> <<1>>   [] text = "2" -> <<2>>
      [] text = "11" -> <<11>>   [] text = "12" -> <<12>> [] text = "13" -> <<13>>
      [] text = "14" -> <<14>>   [] text = "15" -> <<15>> [] text = "16" -> <<16>>
      [] text = "17" -> <<17>>   [] text = "18" -> <<18>>
      [] OTHER -> << >>

\* Dates are day numbers; NaT is pandas' missing date.
NaT == 0

\* The day number of a date text pandas can parse, NaT for any other text.
parse_date(text) ==
    CASE text = "2024-01-01" -> 1   [] text = "2024-01-02" -> 2
      [] text = "2024-01-03" -> 3   [] text = "2024-01-04" -> 4
      [] text = "2024-01-05" -> 5   [] text = "2024-01-06" -> 6
      [] text = "2024-01-07" -> 7   [] text = "2024-01-08" -> 8
      [] text = "2024-01-09" -> 9   [] text = "2024-01-10" -> 10
      [] text = "2024-01-11" -> 11  [] text = "2024-01-12" -> 12
      [] OTHER -> NaT

\* pd.to_datetime raises on a text that is no date; the empty text is NaT.
to_datetime_raises(text) == text # "" /\ parse_date(text) = NaT

\* pd.to_datetime(errors='coerce'): NaT instead of raising.
to_datetime_coerce(text) == parse_date(text)

\* str.lower()
str_lower(text) ==
    CASE text = "Income" -> "income" [] text = "INCOME" -> "income"
      [] text = "Expense" -> "expense" [] OTHER -> text

\* DataFrame.dropna on an object column built from cell texts: a str, the
\* empty one too, is never NA.
isna_text(text) == FALSE

ColumnIndex(hdrs, name) == CHOOSE j \in 1..Len(hdrs) : hdrs[j] = name
HasColumn(hdrs, name) == \E j \in 1..Len(hdrs) : hdrs[j] = name

\* The orders a sort by `keys` (ascending) can leave the positions in `left`
\* in: sort_values uses quicksort, which promises nothing for equal keys.
RECURSIVE orders_from(_, _)
orders_from(keys, left) ==
    IF left = {} THEN { << >> }
    ELSE LET firsts == {i \in left : \A j \in left : keys[i] <= keys[j]}
         IN  UNION { { <<i>> \o o : o \in orders_from(keys, left \ {i}) } : i \in firsts }

RECURSIVE cumsum_upto(_, _)
cumsum_upto(xs, k) == IF k = 0 THEN 0 ELSE cumsum_upto(xs, k - 1) + xs[k]

\* Series.cumsum()
cumsum(xs) == [k \in 1..Len(xs) |-> cumsum_upto(xs, k)]

head_all(xs, n) == xs

\* Series.head(n)
head(xs, n) == IF Len(xs) <= n THEN xs ELSE SubSeq(xs, 1, n)

\* ---------------------------------------------------------------------------
\* MainWindow._table_to_dataframe: None is the empty sequence (the code
\* returns None exactly when no row is left).

table_to_dataframe(s) ==
    IF rowCount(s) = 0 THEN << >>
    ELSE IF \E name \in {"Description", "Date", "Type", "Amount"} : ~HasColumn(s.headers, name)
         THEN << >>
    ELSE LET cell(r, name) == s.table[r][ColumnIndex(s.headers, name)]
             data == [r \in 1..rowCount(s) |->
                        [Description |-> cell(r, "Description"),
                         Date |-> cell(r, "Date"),
                         Type |-> cell(r, "Type"),
                         Amount |-> to_numeric(cell(r, "Amount"))]]
             keep(row) == /\ row.Amount # << >>
                          /\ ~isna_text(row.Date)
                          /\ ~isna_text(row.Type)
             kept == SelectSeq(data, keep)
         IN  [r \in 1..Len(kept) |-> [kept[r] EXCEPT !.Amount = kept[r].Amount[1]]]

\* ---------------------------------------------------------------------------
\* Derivations of the charts

signed_amount_caseSensitive(row) ==
    IF row.Type = "income" THEN row.Amount ELSE -row.Amount

\* lambda row: row['Amount'] if row['Type'].lower() == 'income' else -row['Amount']
signed_amount(row) ==
    IF str_lower(row.Type) = "income" THEN row.Amount ELSE -row.Amount

\* The rows of `rows` in the order `o`, with their running balance.
balance_of(rows, dates, o) ==
    LET signed == [k \in 1..Len(o) |-> signed_amount(rows[o[k]])]
        balance == cumsum(signed)
    IN  [k \in 1..Len(o) |-> [Date |-> dates[o[k]], Balance |-> balance[k]]]

\* df['Date'] after pd.to_datetime(errors='coerce')
coerced_dates(df) == [r \in 1..Len(df) |-> to_datetime_coerce(df[r].Date)]

\* sort_values puts the NaT rows last, in their original order.
RECURSIVE ascending(_)
ascending(S) ==
    IF S = {} THEN << >>
    ELSE LET m == CHOOSE i \in S : \A j \in S : i <= j
         IN  <<m>> \o ascending(S \ {m})

\* Charts._create_line_chart: the (Date, Balance) series it can plot, the
\* rows whose Date is NaT dropped.
create_line_chart(df) ==
    UNION { { balance_of(df, dates, o) :
              o \in orders_from(dates, {r \in 1..Len(df) : dates[r] # NaT}) }
          : dates \in {coerced_dates(df)} }

\* PdfExporter._create_time_chart: pd.to_datetime without errors='coerce'
\* raises on a text that is no date.
create_time_chart_raises(df) ==
    \E r \in 1..Len(df) : to_datetime_raises(df[r].Date)

\* PdfExporter._create_time_chart: the series it can plot when it does not
\* raise; nothing is dropped.
create_time_chart(df) ==
    UNION { { balance_of(df, dates, o \o ascending({r \in 1..Len(df) : dates[r] = NaT})) :
              o \in orders_from(dates, {r \in 1..Len(df) : dates[r] # NaT}) }
          : dates \in {coerced_dates(df)} }

RECURSIVE group_sum(_, _, _)
group_sum(df, description, k) ==
    IF k = 0 THEN 0
    ELSE group_sum(df, description, k - 1)
         + (IF df[k].Description = description THEN df[k].Amount ELSE 0)

\* The n of head(n).
TopN == 10

\* df.groupby('Description')['Amount'].sum().sort_values(ascending=False).head(10)
\* groupby keeps one entry per Description (ordered by Description, so the
\* order of the rows is lost); the descending sort may leave equal sums in
\* any order.
RECURSIVE descending(_, _)
descending(sums, left) ==
    IF left = {} THEN { << >> }
    ELSE LET top == CHOOSE d \in left : \A e \in left : sums[d] >= sums[e]
             firsts == {d \in left : sums[d] = sums[top]}
         IN  UNION { { <<[Description |-> d, Amount |-> sums[d]]>> \o o :
                       o \in descending(sums, left \ {d}) } : d \in firsts }

create_pie_chart(df) ==
    UNION { { head(sorted, TopN) : sorted \in descending(sums, DOMAIN sums) }
          : sums \in { [d \in {df[r].Description : r \in 1..Len(df)} |->
                          group_sum(df, d, Len(df))] } }

\* matplotlib's ax.pie raises ValueError on a negative wedge size.
pie_raises(type_sums) == \E k \in 1..Len(type_sums) : type_sums[k].Amount < 0

\* ---------------------------------------------------------------------------
\* Charts dialog and PDF export. Each yields the set of ways the request can
\* end: [df, outcome, pie, series, temp_files].

NoResult == [df |-> << >>, outcome |-> "none", pie |-> << >>, series |-> << >>]

Ended(df, outcome, pie, series, files) ==
    [df |-> df, outcome |-> outcome, pie |-> pie, series |-> series,
     temp_files |-> files]

\* PdfExporter._cleanup_temp_files
cleanup_temp_files(files, paths) == files \ paths

\* PdfExporter.export: mkstemp creates "pie", then "time"; an exception of
\* _create_chart_images leaves export before the try block is entered.
PdfExporter_export(df, file_path, build_ok) ==
    IF df = << >> THEN { Ended(df, "no_data", << >>, << >>, {}) }
    ELSE IF file_path = "" THEN { Ended(df, "cancelled", << >>, << >>, {}) }
    ELSE UNION {
           IF pie_raises(pie)
           THEN { Ended(df, "raised", pie, << >>, {"pie"}) }
           ELSE IF create_time_chart_raises(df)
           THEN { Ended(df, "raised", pie, << >>, {"pie", "time"}) }
           ELSE { Ended(df, IF build_ok THEN "success" ELSE "error_shown", pie, series,
                        cleanup_temp_files({"pie", "time"}, {"pie", "time"})) :
                  series \in create_time_chart(df) }
         : pie \in create_pie_chart(df) }

\* MainWindow.save_to_pdf
save_to_pdf(s, file_path, build_ok) ==
    UNION { IF df = << >> THEN { Ended(df, "empty_error", << >>, << >>, {}) }
            ELSE PdfExporter_export(df, file_path, build_ok)
          : df \in {table_to_dataframe(s)} }

\* MainWindow.charts and Charts.__init__
charts(s) ==
    UNION { IF df = << >> THEN { Ended(df, "empty_error", << >>, << >>, {}) }
            ELSE UNION {
                   IF pie_raises(pie) THEN { Ended(df, "raised", pie, << >>, {}) }
                   ELSE { Ended(df, "shown", pie, series, {}) :
                          series \in create_line_chart(df) }
                 : pie \in create_pie_chart(df) }
          : df \in {table_to_dataframe(s)} }

\* ---------------------------------------------------------------------------
\* Specification of the editing session

NoEdit == editCell' = << >> /\ editOld' = "" /\ redoTail' = 0

Tick(op) ==
    /\ ops < MaxOps /\ ops' = ops + 1 /\ lastOp' = op
    /\ UNCHANGED <<temp_files, result>>

Step(op) == Tick(op) /\ UNCHANGED <<written, accepted>>

Init ==
    /\ headers = << >>
    /\ table = << >>
    /\ undo_stack = << >>
    /\ index = 0
    /\ ignore_change = FALSE
    /\ last_cell = << >>
    /\ last_value = << >>
    /\ current_filename = << >>
    /\ lastOp = "init"
    /\ editCell = << >>
    /\ editOld = ""
    /\ redoTail = 0
    /\ ops = 0
    /\ temp_files = {}
    /\ result = NoResult
    /\ written = << >>
    /\ accepted = << >>

CellClicked ==
    \E row \in 1..Len(table), col \in ClickCols \cap (1..Len(headers)) :
        /\ Becomes(on_cell_clicked(St, row, col))
        /\ Step("click")
        /\ NoEdit

ItemEdited ==
    \E row \in 1..Len(table), col \in EditCols \cap (1..Len(headers)), text \in EditTexts :
        /\ text # table[row][col]
        /\ Becomes(user_edit(St, row, col, text))
        /\ Step("edit")
        /\ editCell' = <<row, col>>
        /\ editOld' = table[row][col]
        /\ redoTail' = Len(undo_stack) - index

Undo ==
    /\ Becomes(MainWindow_undo(St))
    /\ Step("undo")
    /\ NoEdit

Redo ==
    /\ Becomes(MainWindow_redo(St))
    /\ Step("redo")
    /\ NoEdit

ImportCancelled ==
    /\ Step("import_cancelled")
    /\ NoEdit
    /\ UNCHANGED <<headers, table, undo_stack, index, ignore_change, last_cell,
                   last_value, current_filename>>

ImportCsv ==
    \E filename \in FileNames :
        /\ Becomes(CsvReader_read(St, filename))
        /\ Tick(IF ~Files[filename].readable THEN "import_unreadable"
                ELSE IF MissingRequired(filename) THEN "import_missing_columns"
                ELSE "import_ok")
        /\ NoEdit
        /\ accepted' = IF Files[filename].readable /\ ~MissingRequired(filename)
                       THEN <<filename>> ELSE accepted
        /\ UNCHANGED written

\* A save handler that ended as `r`.
SaveStep(op, r) ==
    /\ Becomes(r.st)
    /\ Tick(op \o "_" \o r.how)
    /\ NoEdit
    /\ written' = IF r.wrote # << >> THEN r.wrote ELSE written
    /\ accepted' = IF r.how \in {"saved", "prompt_saved"} THEN r.wrote ELSE accepted

\* MainWindow.save
Save ==
    \E filename \in SaveNames, write_ok \in BOOLEAN :
        LET r == CsvReader_quick_save(St, filename, write_ok)
        IN  SaveStep("save", r)

\* MainWindow.save_file
SaveFile ==
    \E filename \in SaveNames, write_ok \in BOOLEAN :
        LET r == CsvReader_save_as(St, filename, write_ok)
        IN  SaveStep("save_file", r)

Next ==
    \/ CellClicked
    \/ ItemEdited
    \/ Undo
    \/ Redo
    \/ ImportCancelled
    \/ ImportCsv

Spec == Init /\ [][Next]_vars

\* The same session with the two save handlers.
NextFiles ==
    \/ Next
    \/ Save
    \/ SaveFile

SpecFiles == Init /\ [][NextFiles]_vars

\* ---------------------------------------------------------------------------
\* Specifications of one chart or PDF request on a given table

\* The rows of the tables: Description, Date, Type, Amount.
RowKinds ==
    { <<"Rent", d, "Income", "100">> : d \in {"2024-01-01", "2024-01-02", "2024-01-03"} }
    \cup { <<"Rent", d, "Expense", "30">> : d \in {"2024-01-01", "2024-01-02", "2024-01-03"} }
    \cup { <<"Food", "2024-01-02", "Income", "20">> }
    \cup { <<"Food", "not a date", "Income", "100">>,
           <<"Food", "", "Expense", "30">>,
           <<"Rent", "2024-01-02", "", "20">>,
           <<"Rent", "2024-01-02", "income", "20">>,
           <<"Food", "2024-01-01", "Expense", "abc">>,
           <<"Food", "2024-01-03", "Income", "">>,
           <<"Food", "2024-01-01", "Expense", "-5">> }

\* Eight rows with eight Descriptions, eight amounts and eight dates.
EightRows ==
    << <<"p1", "2024-01-01", "Expense", "11">>, <<"p2", "2024-01-02", "Expense", "12">>,
       <<"p3", "2024-01-03", "Expense", "13">>, <<"p4", "2024-01-04", "Expense", "14">>,
       <<"p5", "2024-01-05", "Expense", "15">>, <<"p6", "2024-01-06", "Expense", "16">>,
       <<"p7", "2024-01-07", "Expense", "17">>, <<"p8", "2024-01-08", "Expense", "18">> >>

\* The rows that follow them: three more Descriptions, small amounts.
FreeRows ==
    { <<"a", "2024-01-10", "Expense", x>> : x \in {"1", "2"} }
    \cup { <<"b", "2024-01-11", "Income", x>> : x \in {"1", "2"} }
    \cup { <<"c", "2024-01-12", "Expense", x>> : x \in {"1", "2"} }

SeqsUpTo(S, n) == UNION { [1..k -> S] : k \in 0..n }

InitTable(tables) ==
    /\ headers = required_columns
    /\ table \in tables
    /\ undo_stack = << >>
    /\ index = 0
    /\ ignore_change = FALSE
    /\ last_cell = << >>
    /\ last_value = << >>
    /\ current_filename = << >>
    /\ lastOp = "init"
    /\ editCell = << >>
    /\ editOld = ""
    /\ redoTail = 0
    /\ ops = 0
    /\ temp_files = {}
    /\ result = NoResult
    /\ written = << >>
    /\ accepted = << >>

InitRows == InitTable(SeqsUpTo(RowKinds, MaxRows))

InitGroups ==
    InitTable({ prefix \o free : prefix \in {<< >>, EightRows},
                                 free \in SeqsUpTo(FreeRows, MaxFree) })

Request(op, ended) ==
    /\ lastOp = "init"
    /\ lastOp' = op
    /\ result' = [df |-> ended.df, outcome |-> ended.outcome, pie |-> ended.pie,
                  series |-> ended.series]
    /\ temp_files' = temp_files \cup ended.temp_files
    /\ ops' = ops + 1
    /\ UNCHANGED <<headers, table, undo_stack, index, ignore_change, last_cell,
                   last_value, current_filename, editCell, editOld, redoTail,
                   written, accepted>>

Charts == \E ended \in charts(St) : Request("charts", ended)

SaveToPdf ==
    \E file_path \in {"", "report.pdf"}, build_ok \in BOOLEAN :
        \E ended \in save_to_pdf(St, file_path, build_ok) :
            Request("save_to_pdf", ended)

NextRequest ==
    \/ Charts
    \/ SaveToPdf

SpecRows == InitRows /\ [][NextRequest]_vars

SpecGroups == InitGroups /\ [][NextRequest]_vars

\* ---------------------------------------------------------------------------
\* Claims about the editing session

StNext == [headers |-> headers', table |-> table', undo_stack |-> undo_stack',
           index |-> index', ignore_change |-> ignore_change',
           last_cell |-> last_cell', last_value |-> last_value',
           current_filename |-> current_filename']

\* C1: an undo() issued right after a user edit puts back, in the edited cell,
\* the text the cell held just before the edit, and a redo() after that undo
\* leaves the table as the edit left it.
C1_UndoRestoresPriorText ==
    lastOp = "edit" =>
        LET undone == MainWindow_undo(St)
            redone == MainWindow_redo(undone)
        IN  /\ undone.table[editCell[1]][editCell[2]] = editOld
            /\ redone.table = table

\* C2: a successful CSV import adds no command to the undo stack, and an
\* undo() issued right after it changes no imported cell.
C2_ImportRecordsNothing ==
    [][lastOp' = "import_ok" =>
          /\ Len(undo_stack') = Len(undo_stack)
          /\ MainWindow_undo(StNext).table = table']_vars

\* C3: undo and redo leave the number of recorded commands unchanged, a user
\* edit leaves exactly one new command after the applied ones (the redo() run
\* by push records nothing), and _ignore_change is false between handlers.
C3_UndoRedoNeverRecord ==
    [][/\ ~ignore_change /\ ~ignore_change'
       /\ lastOp' \in {"undo", "redo"} => Len(undo_stack') = Len(undo_stack)
       /\ lastOp' = "edit" => Len(undo_stack') = index + 1]_vars

C3_Witness ==
    /\ lastOp = "undo"
    /\ 0 < index /\ index < Len(undo_stack)
    /\ \E col \in EditCols : undo_stack[index + 1].col = col
                             /\ undo_stack[index + 1].new_value \in EditTexts

\* C4: after a user edit the new command is the last one of the history, the
\* cursor equals the history length (every undone command is gone), and a
\* redo() changes neither the table nor the history.
C4_EditDiscardsRedoTail ==
    lastOp = "edit" =>
        /\ index > 0
        /\ index = Len(undo_stack)
        /\ undo_stack[index].row = editCell[1]
        /\ undo_stack[index].col = editCell[2]
        /\ undo_stack[index].new_value = table[editCell[1]][editCell[2]]
        /\ MainWindow_redo(St) = St

C4_Witness == lastOp = "edit" /\ redoTail >= 2

\* C5: an import that fails (unreadable file, or a required column missing)
\* leaves headers, cells and the undo history exactly as they were.
C5_FailedImportChangesNothing ==
    [][lastOp' \in {"import_unreadable", "import_missing_columns"} =>
          UNCHANGED <<headers, table, undo_stack, index>>]_vars

C5_Witness ==
    /\ lastOp = "import_missing_columns"
    /\ Len(table) > 0
    /\ Len(undo_stack) > index
    /\ \E col \in EditCols : table[1][col] \in EditTexts

\* ---------------------------------------------------------------------------
\* Claims about a chart or PDF request

\* What the claims mean by a parseable date, an income row, a signed amount.
DateParses(text) == parse_date(text) # NaT
ClaimSigned(row) ==
    IF row.Type \in {"Income", "income", "INCOME"} THEN row.Amount ELSE -row.Amount

RowOrders(n) == {q \in [1..n -> 1..n] : \A i, j \in 1..n : q[i] = q[j] => i = j}

RECURSIVE ClaimSum(_, _)
ClaimSum(xs, S) ==
    IF S = {} THEN 0
    ELSE LET k == CHOOSE i \in S : TRUE IN xs[k] + ClaimSum(xs, S \ {k})

Derived == lastOp \in {"charts", "save_to_pdf"}
           /\ result.outcome \in {"shown", "success", "error_shown"}

\* C6: when a PDF export has returned or raised, no temporary chart image is
\* left on disk.
C6_NoTempFileLeft == lastOp = "save_to_pdf" => temp_files = {}

\* C7: rows whose Date does not parse are left out of the balance series by
\* the chart view and by the PDF export alike: the export does not fail on
\* such a row and plots a series the chart view can plot for the same rows,
\* with one point per row whose Date parses.
C7_SameSeriesInChartAndPdf ==
    /\ (lastOp = "save_to_pdf" /\ result.df # << >> /\ result.outcome # "cancelled"
        /\ ~pie_raises(result.pie)) =>
           /\ result.outcome # "raised"
           /\ result.series \in create_line_chart(result.df)
    /\ (lastOp = "charts" /\ result.outcome = "shown") =>
           Len(result.series)
             = Cardinality({r \in 1..Len(result.df) : DateParses(result.df[r].Date)})

\* C8: the rows handed to the chart view and to the PDF exporter are exactly
\* the rows of the table with a numeric Amount, a non-empty parseable Date
\* and a non-empty Type.
C8_DropsInvalidRows ==
    Derived \/ (lastOp \in {"charts", "save_to_pdf"} /\ result.outcome = "empty_error") =>
        LET valid(row) == /\ to_numeric(row[4]) # << >>
                          /\ row[2] # "" /\ DateParses(row[2])
                          /\ row[3] # ""
            rows == SelectSeq(table, valid)
        IN  result.df = [r \in 1..Len(rows) |->
                            [Description |-> rows[r][1], Date |-> rows[r][2],
                             Type |-> rows[r][3], Amount |-> to_numeric(rows[r][4])[1]]]

\* The balance series of the table with its rows in the order q, as the
\* chart view and as the PDF export derive it.
SeriesOfPermuted(q) ==
    LET df == table_to_dataframe([St EXCEPT !.table = [k \in 1..Len(table) |-> table[q[k]]]])
    IN  create_line_chart(df) \cup create_time_chart(df)

AllDatesParse == \A r \in 1..Len(result.df) : DateParses(result.df[r].Date)
DistinctDates ==
    \A i, j \in 1..Len(result.df) :
        result.df[i].Date = result.df[j].Date => i = j

\* The series is sorted by date and its balances are the cumulative sums of
\* the signed amounts of the rows, taken in some order sorted by date.
SeriesIsRunningBalance ==
    LET df == result.df
        n == Len(df)
        series == result.series
    IN  /\ Len(series) = n
        /\ \A k \in 1..(n - 1) : series[k].Date <= series[k + 1].Date
        /\ \E q \in RowOrders(n) :
              \A k \in 1..n :
                  /\ series[k].Date = parse_date(df[q[k]].Date)
                  /\ series[k].Balance
                       = ClaimSum([i \in 1..n |-> ClaimSigned(df[q[i]])], 1..k)

\* C9 as stated: for rows with parseable dates, every order of the rows gives
\* the same series, rows that share a date included.
C9_OrderIndependent ==
    (Derived /\ AllDatesParse) =>
        /\ SeriesIsRunningBalance
        /\ \A q \in RowOrders(Len(table)) : SeriesOfPermuted(q) = {result.series}

\* C9 as amended: the series is sorted by date and is a running balance of the
\* signed amounts; it is the same for every order of the rows when no two
\* rows share a date.
C9_OrderIndependentDistinctDates ==
    (Derived /\ AllDatesParse) =>
        /\ SeriesIsRunningBalance
        /\ DistinctDates =>
             \A q \in RowOrders(Len(table)) : SeriesOfPermuted(q) = {result.series}

\* The example of the claim, in the chart view.
C9_Witness ==
    /\ lastOp = "charts"
    /\ table = << <<"Rent", "2024-01-01", "Income", "100">>,
                  <<"Rent", "2024-01-03", "Expense", "30">>,
                  <<"Food", "2024-01-02", "Income", "20">> >>
    /\ result.series = << [Date |-> 1, Balance |-> 100], [Date |-> 2, Balance |-> 120],
                          [Date |-> 3, Balance |-> 90] >>

\* The groups of the pie: Descriptions, their summed Amount, the row in which
\* each occurs first.
Descriptions == {result.df[r].Description : r \in 1..Len(result.df)}
SumOf(d) ==
    ClaimSum([r \in 1..Len(result.df) |->
                 IF result.df[r].Description = d THEN result.df[r].Amount ELSE 0],
             1..Len(result.df))
FirstRow(d) ==
    CHOOSE r \in 1..Len(result.df) :
        /\ result.df[r].Description = d
        /\ \A q \in 1..(r - 1) : result.df[q].Description # d
Charted == {result.pie[k].Description : k \in 1..Len(result.pie)}
PieDerived == lastOp \in {"charts", "save_to_pdf"}
              /\ result.outcome \in {"shown", "success", "error_shown", "raised"}

\* One entry per Description with the sum of its amounts, sums descending, at
\* most TopN entries, none left out that is larger than one kept.
PieIsTopGroups ==
    LET pie == result.pie
    IN  /\ Len(pie) = (IF Cardinality(Descriptions) < TopN
                       THEN Cardinality(Descriptions) ELSE TopN)
        /\ \A k \in 1..Len(pie) : /\ pie[k].Description \in Descriptions
                                  /\ pie[k].Amount = SumOf(pie[k].Description)
        /\ \A i, j \in 1..Len(pie) : pie[i].Description = pie[j].Description => i = j
        /\ \A k \in 1..(Len(pie) - 1) : pie[k].Amount >= pie[k + 1].Amount
        /\ \A d \in Descriptions \ Charted :
              \A k \in 1..Len(pie) : SumOf(d) <= pie[k].Amount

ClaimValidRow(row) ==
    /\ to_numeric(row[4]) # << >>
    /\ row[2] # "" /\ DateParses(row[2])
    /\ row[3] # ""

NoRowSurvives == \A r \in 1..Len(table) : ~ClaimValidRow(table[r])

\* C11: a chart or PDF request on a table that is empty, or of which no row
\* survives filtering, ends with the "empty or invalid data" error and
\* nothing else: no save dialog, no chart, no document, no temporary file;
\* and a PDF request whose save dialog is cancelled leaves no temporary file.
C11_EmptyRequestRejectedCleanly ==
    /\ (lastOp \in {"charts", "save_to_pdf"} /\ NoRowSurvives) =>
           /\ result.outcome = "empty_error"
           /\ result.pie = << >> /\ result.series = << >>
           /\ temp_files = {}
    /\ (lastOp = "save_to_pdf" /\ result.outcome = "cancelled") => temp_files = {}

\* ---------------------------------------------------------------------------
\* Claims about the quick-save target

\* C12: current_filename changes only in an import that succeeds or a
\* Save As that succeeds; so Save (quick_save) writes only over the file last
\* imported or saved with success, never over a file whose import was
\* rejected, and prompts Save As while there is no such file.
C12_FilenameOnlyOnSuccess ==
    [][/\ current_filename' # current_filename =>
              lastOp' \in {"import_ok", "save_file_saved", "save_prompt_saved"}
       /\ lastOp' = "save_quick" => (accepted # << >> /\ written' = accepted)
       /\ (accepted = << >> /\ lastOp' \in {"save_quick", "save_quick_failed"}) => FALSE
      ]_vars

====
